---- MODULE Spec2Model ----
(***************************************************************************)
(* giagrad: the Tensor node, the Context (operator-instance) it is created *)
(* by, Tensor.comm, the in-place updates and Tensor.backward, the reverse- *)
(* mode driver (post-order DFS, seeding, reverse processing, teardown).    *)
(*                                                                         *)
(* A Tensor is a record; the heap of Tensors is the sequence `tensors`,    *)
(* a Tensor's identity is its index.  A buffer is a record                 *)
(*   [arr, dims, v]: arr = TRUE for a numpy array (it has .shape), FALSE   *)
(*   for a raw python number or list; dims = <<>> (0-d) or <<n>> (1-d);    *)
(*   v the flat elements.  Elements are integers (exact in float32).       *)
(***************************************************************************)
EXTENDS Integers, Sequences, FiniteSets, TLC

\* ------------------------------------------------------------------ bounds
\* A behaviour is one caller session; its bounds and input sets are fixed at
\* the start (Sessions below).
SharedTensors   == 5    \* Tensors of a session that shares sub-expressions
ScenarioTensors == 4    \* Tensors of a session with one backward pass
RepeatTensors   == 3    \* Tensors of a session with repeated backward passes
ApiTensors      == 3    \* Tensors of a session using the whole Tensor API
AbortTensors    == 4    \* Tensors of a session with an operator lacking backward
TwoLeaves       == 2    \* directly constructed Tensors, where two are allowed
OneLeaf         == 1    \* directly constructed Tensors, where one is allowed
OnePass         == 1    \* calls of backward() in a single-pass session
TwoPasses       == 2    \* calls of backward() in a repeated-pass session
OneUpdate       == 1    \* in-place updates / flag toggles in an API session
VecLen          == 2    \* length of the 1-d buffers
MaxAbs          == 1000 \* magnitude of a forward value or an updated value

\* ------------------------------------------------------------ NumericBuffer
Raw(dims, v)     == [arr |-> FALSE, dims |-> dims, v |-> v]
NDArray(dims, v) == [arr |-> TRUE, dims |-> dims, v |-> v]
Numel(dims)      == IF dims = <<>> THEN 1 ELSE dims[1]
Fill(dims, c)    == NDArray(dims, [i \in 1..Numel(dims) |-> c])

\* np.array(data, dtype=np.float32): a fresh array, whatever data was
np_array(data)   == NDArray(data.dims, data.v)
\* np.zeros_like(a), np.ones(shape)
np_zeros_like(a) == Fill(a.dims, 0)
np_ones(shape)   == Fill(shape, 1)

Broadcastable(a, b) == a.dims = b.dims \/ a.dims = <<>> \/ b.dims = <<>>
BroadcastDims(a, b) == IF a.dims = <<>> THEN b.dims ELSE a.dims
At(a, i)            == IF a.dims = <<>> THEN a.v[1] ELSE a.v[i]

RECURSIVE Power(_, _)
Power(x, y) == IF y = 0 THEN 1 ELSE x * Power(x, y - 1)

Arith(f, x, y) ==
    CASE f = "add" -> x + y
      [] f = "sub" -> x - y
      [] f = "mul" -> x * y
      [] f = "pow" -> Power(x, y)
      [] f = "div" -> x \div y

\* the scalar cases the integer model is exact on
ArithDefined(f, x, y) ==
    CASE f = "pow" -> y >= 0 /\ y <= 3
      [] f = "div" -> y > 0 /\ x % y = 0
      [] OTHER     -> TRUE

\* a (f) b with numpy broadcasting; the result is an array iff one operand is
Elementwise(f, a, b) ==
    [arr  |-> a.arr \/ b.arr,
     dims |-> BroadcastDims(a, b),
     v    |-> [i \in 1..Numel(BroadcastDims(a, b)) |-> Arith(f, At(a, i), At(b, i))]]

ElementwiseDefined(f, a, b) ==
    /\ Broadcastable(a, b)
    /\ \A i \in 1..Numel(BroadcastDims(a, b)) : ArithDefined(f, At(a, i), At(b, i))

RECURSIVE SumTo(_, _)
SumTo(v, n) == IF n = 0 THEN 0 ELSE v[n] + SumTo(v, n - 1)
Total(a)    == SumTo(a.v, Len(a.v))

\* a @ b is defined on two 1-d buffers of one length: the dot product, 0-d
MatmulDefined(a, b) == a.dims # <<>> /\ b.dims # <<>> /\ a.dims = b.dims
Matmul(a, b) ==
    NDArray(<<>>, <<SumTo([i \in 1..Numel(a.dims) |-> a.v[i] * b.v[i]], Numel(a.dims))>>)

Small(a) == \A i \in 1..Len(a.v) : a.v[i] <= MaxAbs /\ a.v[i] >= -MaxAbs

\* ------------------------------------------------------------------ Context
NoContext     == [kind |-> "None", op |-> "", parents |-> <<>>]
\* the slot after `del tensor._ctx`: reading it raises AttributeError
Deleted       == [kind |-> "Deleted", op |-> "", parents |-> <<>>]
\* Context.__init__(save_for_backward)
Context(op, save_for_backward) ==
    [kind |-> "Context", op |-> op, parents |-> save_for_backward]

\* ------------------------------------------------------------------- Tensor
\* Tensor.__init__(data, requires_grad, context, name='')
Tensor(data, requires_grad, context) ==
    [data          |-> np_array(data),
     grad          |-> np_zeros_like(np_array(data)),
     ctx           |-> context,
     requires_grad |-> requires_grad,
     name          |-> ""]

\* pass: where a backward() call that is followed statement by statement
\* stands (its locals); Idle when no such call is running
VARIABLES tensors, last, session, nLeaves, nBackward, nUpdate, pass
vars == <<tensors, last, session, nLeaves, nBackward, nUpdate, pass>>

Ids == 1..Len(tensors)

\* a caller's operand: an existing Tensor (by identity) or a raw value
OperandT(id)    == [isT |-> TRUE, id |-> id, raw |-> Raw(<<>>, <<0>>)]
OperandRaw(raw) == [isT |-> FALSE, id |-> 0, raw |-> raw]

\* ---------------------------------------------- operator kernels (mathops)
Operators == {"Add", "Mul", "Sum"}
\* an operator class that defines forward (a copy of its operand) and inherits
\* Context.backward
ForwardOnly == "ForwardOnly"
Arity(op) == IF op \in {"Sum", ForwardOnly} THEN 1 ELSE 2

\* forward(*operands): the result buffer of Add, Mul (elementwise) and Sum
ForwardDefined(ts, op, ids) ==
    /\ Len(ids) = Arity(op)
    /\ Arity(op) = 2 => Broadcastable(ts[ids[1]].data, ts[ids[2]].data)
ForwardData(ts, op, ids) ==
    CASE op = "Add" -> Elementwise("add", ts[ids[1]].data, ts[ids[2]].data)
      [] op = "Mul" -> Elementwise("mul", ts[ids[1]].data, ts[ids[2]].data)
      [] op = "Sum" -> NDArray(<<>>, <<Total(ts[ids[1]].data)>>)
      [] op = ForwardOnly -> ts[ids[1]].data

\* reduce a contribution to the shape of the grad it is added into
Collapse(c, dims) ==
    IF dims = <<>> /\ c.dims # <<>> THEN NDArray(<<>>, <<Total(c)>>) ELSE c

\* local derivative x upstream for parent j of an operator-instance
Contribution(ts, context, j, partial) ==
    IF context.op = "Mul"
    THEN Elementwise("mul", partial, ts[context.parents[3 - j]].data)
    ELSE partial

\* parent.grad += contribution (accumulate, not overwrite)
Accumulate(ts, p, c) ==
    [ts EXCEPT ![p].grad =
        NDArray(@.dims, Elementwise("add", @, Collapse(c, @.dims)).v)]

\* Add.backward / Mul.backward: route into each parent in order
RECURSIVE OperatorBackward(_, _, _, _)
OperatorBackward(ts0, context, j, partial) ==
    CHOOSE r \in
      { IF j > Len(context.parents) THEN ts
        ELSE OperatorBackward(
                Accumulate(ts, context.parents[j], Contribution(ts, context, j, partial)),
                context, j + 1, partial)
        : ts \in {ts0} } : TRUE

\* Context.backward: the base class raises NotImplementedError
HasBackward(op) == op \in {"Add", "Mul", "Sum"}

\* --------------------------------------------------------------- Tensor.comm
\* operands = [t if isinstance(t, Tensor) else Tensor(t) for t in tensors]
RECURSIVE Operands(_, _, _, _)
Operands(ts, args, i, ids) ==
    IF i > Len(args) THEN [ts |-> ts, ids |-> ids]
    ELSE IF args[i].isT
         THEN Operands(ts, args, i + 1, Append(ids, args[i].id))
         ELSE Operands(Append(ts, Tensor(args[i].raw, FALSE, NoContext)),
                       args, i + 1, Append(ids, Len(ts) + 1))

\* variant: the result requires grad only if an operand does
comm_inherit(ts, operator, args) ==
    CHOOSE r \in
      { Append(w.ts, Tensor(ForwardData(w.ts, operator, w.ids),
                            \E j \in 1..Len(w.ids) : w.ts[w.ids[j]].requires_grad,
                            Context(operator, w.ids)))
        : w \in {Operands(ts, args, 1, <<>>)} } : TRUE

\* variant: the result is stored in the place of its first parent
comm_cycle(ts, operator, args) ==
    CHOOSE r \in
      { Append(w.ts, Tensor(ForwardData(w.ts, operator, w.ids), TRUE,
                            Context(operator, [w.ids EXCEPT ![1] = Len(w.ts) + 1])))
        : w \in {Operands(ts, args, 1, <<>>)} } : TRUE

\* data, context = operator.forward(*operands); cls(data, requires_grad=True, context=context)
comm(ts, operator, args) ==
    CHOOSE r \in
      { Append(w.ts, Tensor(ForwardData(w.ts, operator, w.ids), TRUE,
                            Context(operator, w.ids)))
        : w \in {Operands(ts, args, 1, <<>>)} } : TRUE

commDefined(ts, operator, args) ==
    \E w \in {Operands(ts, args, 1, <<>>)} :
        /\ ForwardDefined(w.ts, operator, w.ids)
        /\ Small(ForwardData(w.ts, operator, w.ids))

\* ----------------------------------------------------------- Tensor.backward
\* the traversal state of build_topo: the post-order list, the visited set,
\* and whether reading a deleted _ctx slot raised AttributeError
TopoStart == [topo |-> <<>>, visited |-> {}, err |-> FALSE]

\* (Operators below bind an argument with `x \in {arg}` where the argument is
\* the state threaded through a recursion, so that it is evaluated once.)

\* topo.append(tensor), unless the traversal below tensor raised
topo_append(after0, tensor) ==
    CHOOSE r \in { IF after.err THEN after
                   ELSE [after EXCEPT !.topo = Append(@, tensor)]
                   : after \in {after0} } : TRUE

RECURSIVE build_topo(_, _, _), build_topo_parents(_, _, _, _)

\* variant: a torn-down Tensor is taken for a leaf (_ctx = None, not a deleted slot)
build_topo_none(ts, tensor, st0) ==
    CHOOSE r \in
      { IF st.err THEN st
        ELSE IF ts[tensor].ctx.kind # "Context" THEN st
        ELSE topo_append(build_topo_parents(ts, tensor, 1, st), tensor)
        : st \in {st0} } : TRUE

\* variant: the traversal follows only the first parent
build_topo_first(ts, tensor, i, st0) ==
    CHOOSE r \in
      { IF st.err \/ i > 1 THEN st
        ELSE IF ts[tensor].ctx.parents[i] \notin st.visited
        THEN build_topo(ts, ts[tensor].ctx.parents[i],
                        [st EXCEPT !.visited = @ \cup {tensor}])
        ELSE st
        : st \in {st0} } : TRUE

\* variant: a Tensor that does not require grad is not traversed
build_topo_trainable(ts, tensor, st0) ==
    CHOOSE r \in
      { IF st.err THEN st
        ELSE IF ts[tensor].ctx.kind = "Deleted" THEN [st EXCEPT !.err = TRUE]
        ELSE IF ts[tensor].ctx.kind = "None" \/ ~ts[tensor].requires_grad THEN st
        ELSE topo_append(build_topo_parents(ts, tensor, 1, st), tensor)
        : st \in {st0} } : TRUE

\* if (context := tensor._ctx): for t in context.parents: ...; topo.append(tensor)
build_topo(ts, tensor, st0) ==
    CHOOSE r \in
      { IF st.err THEN st
        ELSE IF ts[tensor].ctx.kind = "Deleted" THEN [st EXCEPT !.err = TRUE]
        ELSE IF ts[tensor].ctx.kind = "None" THEN st
        ELSE topo_append(build_topo_parents(ts, tensor, 1, st), tensor)
        : st \in {st0} } : TRUE

\* if isinstance(t, Tensor) and t not in visited: visited.add(tensor); build_topo(t)
build_topo_parents(ts, tensor, i, st0) ==
    CHOOSE r \in
      { IF st.err \/ i > Len(ts[tensor].ctx.parents) THEN st
        ELSE IF ts[tensor].ctx.parents[i] \notin st.visited
        THEN build_topo_parents(ts, tensor, i + 1,
                 build_topo(ts, ts[tensor].ctx.parents[i],
                            [st EXCEPT !.visited = @ \cup {tensor}]))
        ELSE build_topo_parents(ts, tensor, i + 1, st)
        : st \in {st0} } : TRUE

\* variant: the creator is never discarded
backward_step_keep(run, tensor, debug) ==
    IF run.ts[tensor].ctx.kind # "Context"
    THEN [run EXCEPT !.err = "AttributeError"]
    ELSE [ts    |-> OperatorBackward(run.ts, run.ts[tensor].ctx, 1, run.ts[tensor].grad),
          err   |-> "",
          calls |-> Append(run.calls, tensor),
          partials |-> Append(run.partials, run.ts[tensor].grad)]

\* variant: the creator is discarded in debug mode too
backward_step_del(run, tensor, debug) ==
    IF run.ts[tensor].ctx.kind # "Context"
    THEN [run EXCEPT !.err = "AttributeError"]
    ELSE [ts    |-> CHOOSE r \in
                      { [done EXCEPT ![tensor].ctx = Deleted]
                        : done \in {OperatorBackward(run.ts, run.ts[tensor].ctx, 1,
                                                     run.ts[tensor].grad)} } : TRUE,
          err   |-> "",
          calls |-> Append(run.calls, tensor),
          partials |-> Append(run.partials, run.ts[tensor].grad)]

\* tensor._ctx.backward(tensor.grad); if not debug: del tensor._ctx
\* run: [ts, err, calls, partials]; calls lists the Tensors whose _ctx.backward
\* was invoked and partials the buffer each invocation was handed
backward_step(run, tensor, debug) ==
    IF run.ts[tensor].ctx.kind # "Context"
    THEN [run EXCEPT !.err = "AttributeError"]
    ELSE IF ~HasBackward(run.ts[tensor].ctx.op)
    THEN [run EXCEPT !.err = "NotImplementedError", !.calls = Append(@, tensor),
                     !.partials = Append(@, run.ts[tensor].grad)]
    ELSE [ts    |-> CHOOSE r \in
                      { IF debug THEN done ELSE [done EXCEPT ![tensor].ctx = Deleted]
                        : done \in {OperatorBackward(run.ts, run.ts[tensor].ctx, 1,
                                                     run.ts[tensor].grad)} } : TRUE,
          err   |-> "",
          calls |-> Append(run.calls, tensor),
          partials |-> Append(run.partials, run.ts[tensor].grad)]

\* variant: the post-order list is processed front to back (not reversed)
RECURSIVE backward_loop_forward(_, _, _, _)
backward_loop_forward(run0, topo, i, debug) ==
    CHOOSE r \in
      { IF i = 0 \/ run.err # "" THEN run
        ELSE backward_loop_forward(backward_step(run, topo[Len(topo) - i + 1], debug),
                                   topo, i - 1, debug)
        : run \in {run0} } : TRUE

\* for tensor in reversed(topo): ...   (an exception leaves the loop)
RECURSIVE backward_loop(_, _, _, _)
backward_loop(run0, topo, i, debug) ==
    CHOOSE r \in
      { IF i = 0 \/ run.err # "" THEN run
        ELSE backward_loop(backward_step(run, topo[i], debug), topo, i - 1, debug)
        : run \in {run0} } : TRUE

\* variant: every grad is reset before the pass, the root's to ones
seed_fresh(ts, self) ==
    [n \in 1..Len(ts) |->
        [ts[n] EXCEPT !.grad = IF n = self THEN np_ones(ts[self].data.dims)
                               ELSE np_zeros_like(@)]]

\* variant: the grad of every Tensor of the process is set to ones
seed_all(ts, self) ==
    [n \in 1..Len(ts) |-> [ts[n] EXCEPT !.grad = np_ones(ts[n].data.dims)]]

\* self.grad = np.ones(self.shape)
seed(ts, self) == [ts EXCEPT ![self].grad = np_ones(ts[self].data.dims)]

\* variant: a pass that raised gives the heap back as it found it
backward_rollback(ts, self, debug) ==
    CHOOSE r \in
      { IF st.err \/ ~ts[self].data.arr
        THEN [ts |-> ts, err |-> "AttributeError", calls |-> <<>>, partials |-> <<>>]
        ELSE CHOOSE q \in
               { IF run.err = "" THEN run ELSE [run EXCEPT !.ts = ts]
                 : run \in {backward_loop([ts |-> seed(ts, self), err |-> "",
                                           calls |-> <<>>, partials |-> <<>>],
                                          st.topo, Len(st.topo), debug)} } : TRUE
        : st \in {build_topo(ts, self, TopoStart)} } : TRUE

\* variant: the root is seeded before the traversal order is built
backward_seed_first(ts, self, debug) ==
    CHOOSE r \in
      { IF ~ts[self].data.arr
        THEN [ts |-> ts, err |-> "AttributeError", calls |-> <<>>, partials |-> <<>>]
        ELSE IF st.err
        THEN [ts |-> seed(ts, self), err |-> "AttributeError", calls |-> <<>>,
              partials |-> <<>>]
        ELSE backward_loop([ts |-> seed(ts, self), err |-> "", calls |-> <<>>,
                            partials |-> <<>>],
                           st.topo, Len(st.topo), debug)
        : st \in {build_topo(ts, self, TopoStart)} } : TRUE

\* Tensor.backward(self, debug)
backward(ts, self, debug) ==
    CHOOSE r \in
      { IF st.err \/ ~ts[self].data.arr
        THEN [ts |-> ts, err |-> "AttributeError", calls |-> <<>>, partials |-> <<>>]
        ELSE backward_loop([ts |-> seed(ts, self), err |-> "", calls |-> <<>>,
                            partials |-> <<>>],
                           st.topo, Len(st.topo), debug)
        : st \in {build_topo(ts, self, TopoStart)} } : TRUE

\* ------------------------------------------------------------ in-place updates
\* x.data if isinstance(x, Tensor) else x
rhs(ts, x) == IF x.isT THEN ts[x.id].data ELSE x.raw

\* __iadd__, __isub__, __imul__, __ipow__, __itruediv__:
\*   self.data (f)= rhs; return self
\* an array is updated in its own storage (its shape stays), a python number
\* is rebound to the result
InplaceOps == {"add", "sub", "mul", "pow", "div"}

\* variant: the update also clears the Tensor's grad
iop_reset(ts, self, f, x) ==
    [ts EXCEPT ![self] = Tensor(Elementwise(f, ts[self].data, rhs(ts, x)),
                                ts[self].requires_grad, ts[self].ctx)]

iop(ts, self, f, x) ==
    LET d == ts[self].data
        r == Elementwise(f, d, rhs(ts, x))
    IN  [ts EXCEPT ![self].data = IF d.arr THEN NDArray(d.dims, r.v) ELSE r]

\* the update raises (and changes nothing) unless the shapes broadcast into self
iopDefined(ts, self, f, x) ==
    LET d == ts[self].data
    IN  /\ ElementwiseDefined(f, d, rhs(ts, x))
        /\ d.arr => BroadcastDims(d, rhs(ts, x)) = d.dims
        /\ Small(Elementwise(f, d, rhs(ts, x)))

\* __imatmul__: self.data = self.data @ x.data if isinstance(x, Tensor) else x
imatmul(ts, self, x) ==
    [ts EXCEPT ![self].data =
        IF x.isT THEN Matmul(ts[self].data, ts[x.id].data) ELSE x.raw]

imatmulDefined(ts, self, x) ==
    x.isT => /\ MatmulDefined(ts[self].data, ts[x.id].data)
             /\ Small(Matmul(ts[self].data, ts[x.id].data))

\* no_grad / requires_grad_
set_requires_grad(ts, self, flag) == [ts EXCEPT ![self].requires_grad = flag]

\* ------------------------------------------------------------------- inputs
Two    == Raw(<<>>, <<2>>)
Three  == Raw(<<>>, <<3>>)
Vec    == Raw(<<VecLen>>, [i \in 1..VecLen |-> i])
Shapes == {<<>>, <<VecLen>>}

Sessions ==
    { [T |-> SharedTensors, L |-> OneLeaf, B |-> OnePass, U |-> 0,
       ops |-> {"Add"}, data |-> {Two}, raws |-> {}, flags |-> {FALSE}],
      [T |-> ScenarioTensors, L |-> TwoLeaves, B |-> OnePass, U |-> 0,
       ops |-> Operators, data |-> {Two, Three, Vec}, raws |-> {}, flags |-> {FALSE}],
      [T |-> RepeatTensors, L |-> OneLeaf, B |-> TwoPasses, U |-> 0,
       ops |-> Operators, data |-> {Two, Vec}, raws |-> {}, flags |-> {FALSE}],
      [T |-> ApiTensors, L |-> TwoLeaves, B |-> OnePass, U |-> OneUpdate,
       ops |-> Operators, data |-> {Two, Vec}, raws |-> {Two}, flags |-> BOOLEAN],
      [T |-> AbortTensors, L |-> OneLeaf, B |-> TwoPasses, U |-> 0,
       ops |-> {"Add", "Mul", ForwardOnly}, data |-> {Two}, raws |-> {}, flags |-> {FALSE}] }

OperandsOf(ts) == {OperandT(i) : i \in 1..Len(ts)} \cup {OperandRaw(r) : r \in session.raws}
ArgsOf(ts, op) ==
    IF Arity(op) = 1 THEN {<<a>> : a \in {OperandT(i) : i \in 1..Len(ts)}}
    ELSE {<<a, b>> : a \in OperandsOf(ts), b \in OperandsOf(ts)}

\* the call the caller made last and what it observed
Call(call, self) ==
    [call |-> call, self |-> self, ret |-> self, debug |-> FALSE, flag |-> FALSE,
     err |-> "", calls |-> <<>>, partials |-> <<>>, args |-> <<>>, f |-> ""]

\* --------------------------------------------------------------------- state
\* no backward() call is being followed
Idle ==
    [pc |-> "idle", self |-> 0, debug |-> FALSE, stack |-> <<>>, topo |-> <<>>,
     visited |-> {}, i |-> 0, start |-> <<>>, err |-> "", calls |-> <<>>,
     partials |-> <<>>]

Init ==
    /\ tensors = <<>>
    /\ last = Call("", 0)
    /\ session \in Sessions
    /\ nLeaves = 0
    /\ nBackward = 0
    /\ nUpdate = 0
    /\ pass = Idle

\* Tensor(data, requires_grad=...)
NewTensor ==
    \E data \in session.data, requires_grad \in session.flags :
        /\ Len(tensors) < session.T
        /\ nLeaves < session.L
        /\ tensors' = Append(tensors, Tensor(data, requires_grad, NoContext))
        /\ last' = [Call("Tensor", Len(tensors) + 1) EXCEPT !.flag = requires_grad]
        /\ nLeaves' = nLeaves + 1
        /\ UNCHANGED <<session, nBackward, nUpdate, pass>>

\* Tensor.zeros(*shape, **kwargs) / Tensor.ones(*shape, **kwargs)
Helper ==
    \E c \in {0, 1}, shape \in Shapes :
        /\ session.U > 0
        /\ Len(tensors) < session.T
        /\ nLeaves < session.L
        /\ tensors' = Append(tensors, Tensor(Fill(shape, c), FALSE, NoContext))
        /\ last' = Call(IF c = 0 THEN "zeros" ELSE "ones", Len(tensors) + 1)
        /\ nLeaves' = nLeaves + 1
        /\ UNCHANGED <<session, nBackward, nUpdate, pass>>

\* Tensor.comm(operator, *args): __add__, __radd__, __mul__, __rmul__, sum
Comm ==
    /\ Len(tensors) < session.T
    /\ \E operator \in session.ops :
        \E args \in ArgsOf(tensors, operator) :
            /\ \E i \in 1..Len(args) : args[i].isT
            /\ commDefined(tensors, operator, args)
            /\ \E new \in {comm(tensors, operator, args)} :
                /\ Len(new) <= session.T
                /\ tensors' = new
                /\ last' = [Call("comm", Len(new)) EXCEPT !.args = args, !.f = operator]
            /\ UNCHANGED <<session, nLeaves, nBackward, nUpdate, pass>>

\* self.backward(debug)
Backward ==
    \E self \in Ids, debug \in BOOLEAN :
        /\ nBackward < session.B
        /\ \E run \in {backward(tensors, self, debug)} :
               /\ tensors' = run.ts
               /\ last' = [Call("backward", self) EXCEPT !.ret = 0,
                             !.debug = debug, !.err = run.err, !.calls = run.calls,
                             !.partials = run.partials]
        /\ nBackward' = nBackward + 1
        /\ UNCHANGED <<session, nLeaves, nUpdate, pass>>

\* self += x, self -= x, self *= x, self **= x, self /= x
Inplace ==
    \E self \in Ids, f \in InplaceOps, x \in OperandsOf(tensors) :
        /\ nUpdate < session.U
        /\ iopDefined(tensors, self, f, x)
        /\ tensors' = iop(tensors, self, f, x)
        /\ last' = [Call("inplace", self) EXCEPT !.args = <<x>>, !.f = f]
        /\ nUpdate' = nUpdate + 1
        /\ UNCHANGED <<session, nLeaves, nBackward, pass>>

\* self @= x
InplaceMatmul ==
    \E self \in Ids, x \in OperandsOf(tensors) :
        /\ nUpdate < session.U
        /\ imatmulDefined(tensors, self, x)
        /\ tensors' = imatmul(tensors, self, x)
        /\ last' = [Call("inplace", self) EXCEPT !.args = <<x>>, !.f = "matmul"]
        /\ nUpdate' = nUpdate + 1
        /\ UNCHANGED <<session, nLeaves, nBackward, pass>>

\* self.no_grad() / self.requires_grad_()
SetFlag ==
    \E self \in Ids, flag \in BOOLEAN :
        /\ nUpdate < session.U
        /\ tensors' = set_requires_grad(tensors, self, flag)
        /\ last' = [Call(IF flag THEN "requires_grad_" ELSE "no_grad", self)
                       EXCEPT !.flag = flag]
        /\ nUpdate' = nUpdate + 1
        /\ UNCHANGED <<session, nLeaves, nBackward, pass>>

Next ==
    \/ NewTensor
    \/ Helper
    \/ Comm
    \/ Backward
    \/ Inplace
    \/ InplaceMatmul
    \/ SetFlag

Spec == Init /\ [][Next]_vars

\* ------------------------------------------- backward(), statement by statement
\* The same Tensor.backward, followed one statement at a time: pass.stack holds
\* the frames of build_topo (the Tensor and the position in context.parents, 0
\* before _ctx is read), pass.topo and pass.visited its two locals, pass.i the
\* position of the loop over reversed(topo).

\* one step of the innermost build_topo frame; `again` is FALSE in the program
build_topo_frames(ts, p, again) ==
    LET top  == p.stack[Len(p.stack)]
        rest == SubSeq(p.stack, 1, Len(p.stack) - 1)
        ctx  == ts[top.tensor].ctx
        returned(q) ==
            IF rest # <<>> THEN [q EXCEPT !.stack = rest]
            ELSE IF again
            THEN [q EXCEPT !.stack = <<[tensor |-> q.self, i |-> 0]>>,
                           !.topo = <<>>, !.visited = {}]
            ELSE [q EXCEPT !.stack = <<>>, !.pc = "seed"]
    IN  IF top.i = 0
        THEN IF ctx.kind = "Deleted"
             THEN [p EXCEPT !.pc = "raised", !.err = "AttributeError", !.stack = <<>>]
             ELSE IF ctx.kind = "None" THEN returned(p)
             ELSE [p EXCEPT !.stack[Len(p.stack)].i = 1]
        ELSE IF top.i <= Len(ctx.parents)
        THEN IF ctx.parents[top.i] \notin p.visited
             THEN [p EXCEPT !.visited = @ \cup {top.tensor},
                            !.stack = Append([@ EXCEPT ![Len(@)].i = top.i + 1],
                                             [tensor |-> ctx.parents[top.i], i |-> 0])]
             ELSE [p EXCEPT !.stack[Len(p.stack)].i = top.i + 1]
        ELSE returned([p EXCEPT !.topo = Append(@, top.tensor)])

\* variant: when build_topo(self) returns, the traversal is started over
build_topo_step_again(ts, p) == build_topo_frames(ts, p, TRUE)

\* build_topo, one step
build_topo_step(ts, p) == build_topo_frames(ts, p, FALSE)

\* the sessions followed statement by statement: the one that shares
\* sub-expressions and the one with an operator lacking backward
StepSessions == {x \in Sessions : x.ops = {"Add"} \/ ForwardOnly \in x.ops}

InitSteps == Init /\ session \in StepSessions

StepsNewTensor == pass.pc = "idle" /\ NewTensor
StepsComm      == pass.pc = "idle" /\ Comm

\* self.backward(debug) is called: topo = [], visited = set(), build_topo(self)
CallBackward ==
    \E self \in Ids, debug \in BOOLEAN :
        /\ pass.pc = "idle"
        /\ nBackward < session.B
        /\ pass' = [Idle EXCEPT !.pc = "topo", !.self = self, !.debug = debug,
                                !.stack = <<[tensor |-> self, i |-> 0]>>,
                                !.start = tensors]
        /\ UNCHANGED <<tensors, last, session, nLeaves, nBackward, nUpdate>>

TopoStep ==
    /\ pass.pc = "topo"
    /\ pass' = build_topo_step(tensors, pass)
    /\ UNCHANGED <<tensors, last, session, nLeaves, nBackward, nUpdate>>

\* self.grad = np.ones(self.shape)
SeedStep ==
    /\ pass.pc = "seed"
    /\ IF tensors[pass.self].data.arr
       THEN /\ tensors' = seed(tensors, pass.self)
            /\ pass' = [pass EXCEPT !.pc = "loop", !.i = Len(pass.topo)]
       ELSE /\ tensors' = tensors
            /\ pass' = [pass EXCEPT !.pc = "raised", !.err = "AttributeError"]
    /\ UNCHANGED <<last, session, nLeaves, nBackward, nUpdate>>

\* for tensor in reversed(topo): one iteration, or the end of the loop
LoopStep ==
    /\ pass.pc = "loop"
    /\ IF pass.i = 0
       THEN /\ tensors' = tensors
            /\ pass' = [pass EXCEPT !.pc = "returned"]
       ELSE \E run \in {backward_step([ts |-> tensors, err |-> "", calls |-> pass.calls,
                                        partials |-> pass.partials],
                                       pass.topo[pass.i], pass.debug)} :
              /\ tensors' = run.ts
              /\ pass' = [pass EXCEPT !.i = @ - 1, !.calls = run.calls,
                                      !.partials = run.partials, !.err = run.err,
                                      !.pc = IF run.err = "" THEN "loop" ELSE "raised"]
    /\ UNCHANGED <<last, session, nLeaves, nBackward, nUpdate>>

\* the call returns or raises to the caller
Return ==
    /\ pass.pc \in {"returned", "raised"}
    /\ last' = [Call("backward", pass.self) EXCEPT !.ret = 0,
                   !.debug = pass.debug, !.err = pass.err, !.calls = pass.calls,
                   !.partials = pass.partials]
    /\ nBackward' = nBackward + 1
    /\ pass' = Idle
    /\ UNCHANGED <<tensors, session, nLeaves, nUpdate>>

NextSteps ==
    \/ StepsNewTensor
    \/ StepsComm
    \/ CallBackward
    \/ TopoStep
    \/ SeedStep
    \/ LoopStep
    \/ Return

\* one thread runs the call to its end: a statement that can run does run
SpecSteps ==
    /\ InitSteps /\ [][NextSteps]_vars
    /\ WF_vars(TopoStep) /\ WF_vars(SeedStep) /\ WF_vars(LoopStep)

\* ------------------------------------------------------------------- graph
\* the Tensors a Tensor's creator holds (creator.parents)
Parents(ts, n) ==
    IF ts[n].ctx.kind = "Context"
    THEN {ts[n].ctx.parents[i] : i \in 1..Len(ts[n].ctx.parents)}
    ELSE {}

RECURSIVE Closure(_, _)
Closure(ts, S) ==
    IF (S \cup UNION {Parents(ts, n) : n \in S}) = S THEN S
    ELSE Closure(ts, S \cup UNION {Parents(ts, n) : n \in S})

\* the Tensors reachable from root along creator.parents, root included
Reach(ts, root) == Closure(ts, {root})

IsLeaf(ts, n)    == ts[n].ctx = NoContext
IsNonLeaf(ts, n) == ts[n].ctx.kind = "Context"
Invoked(calls)   == {calls[i] : i \in 1..Len(calls)}
ZeroOf(t)        == [t EXCEPT !.grad = np_zeros_like(@)]
\* the heap with every grad zeroed by the caller
ZeroGrad(ts)     == [n \in 1..Len(ts) |-> ZeroOf(ts[n])]
AllZero(ts, S)   == \A n \in S : ts[n].grad = np_zeros_like(ts[n].grad)
Scalar(x)        == NDArray(<<>>, <<x>>)
PlusV(a, b)      == [i \in 1..Len(a) |-> a[i] + b[i]]

BackwardDone     == last.call = "backward" /\ last.err = ""

\* ------------------------------------------------------------------- claims

\* C1: topological soundness.  In a backward pass a Tensor's creator.backward
\* is invoked only after the creator.backward of every Tensor that consumes it
\* and is reachable from the root has been invoked in this pass.
C1_TopologicalSoundness ==
    [][ last'.call = "backward" =>
          \A i \in 1..Len(last'.calls) :
            \A c \in Reach(tensors, last'.self) :
              last'.calls[i] \in Parents(tensors, c) =>
                \E j \in 1..(i - 1) : last'.calls[j] = c ]_vars

\* r = f(x) + g(x): f and g are single operations on leaves, both consume x
Sharing(ts, r, x) ==
    /\ IsNonLeaf(ts, r) /\ ts[r].ctx.op = "Add"
    /\ ts[r].ctx.parents[1] # ts[r].ctx.parents[2]
    /\ \A p \in Parents(ts, r) :
          /\ IsNonLeaf(ts, p)
          /\ HasBackward(ts[p].ctx.op)
          /\ x \in Parents(ts, p)
          /\ \A q \in Parents(ts, p) : IsLeaf(ts, q)
    /\ IsLeaf(ts, x)

\* x.grad after root.backward() on a heap whose grads are all zero
GradAlone(ts, root, x) == backward(ZeroGrad(ts), root, FALSE).ts[x].grad.v

Additive(ts, r, x) ==
    /\ backward(ZeroGrad(ts), r, FALSE).err = ""
    /\ GradAlone(ts, r, x) =
          PlusV(GradAlone(ts, ts[r].ctx.parents[1], x),
                GradAlone(ts, ts[r].ctx.parents[2], x))

\* C2 as stated: additivity under sharing for every r = f(x) + g(x)
C2_AdditivityAnyShape ==
    \A r \in Ids : \A x \in Ids : Sharing(tensors, r, x) => Additive(tensors, r, x)

\* C2 amended: additivity under sharing when f(x) and g(x) have the shape of
\* r, so that the final addition broadcasts nothing: x.grad after r.backward()
\* is the sum of x.grad after f(x).backward() alone and after g(x).backward()
\* alone, each pass starting from zero grads.
SameShape(ts, r) ==
    \A p \in Parents(ts, r) :
        ts[p].data.dims = ts[r].data.dims /\ ts[p].grad.dims = ts[r].data.dims
C2_AdditivitySameShape ==
    \A r \in Ids : \A x \in Ids :
        Sharing(tensors, r, x) /\ SameShape(tensors, r) => Additive(tensors, r, x)

\* a retained pass on r = f(x) + g(x) has left in x.grad the sum of both paths
C2_Witness ==
    /\ BackwardDone /\ last.debug
    /\ \E x \in Ids :
          /\ Sharing(tensors, last.self, x) /\ SameShape(tensors, last.self)
          /\ tensors[x].grad.v = GradAlone(tensors, last.self, x)
          /\ tensors[x].grad.v # GradAlone(tensors, tensors[last.self].ctx.parents[1], x)
          /\ tensors[x].grad.v # GradAlone(tensors, tensors[last.self].ctx.parents[2], x)

\* c = a * b + a with leaves a = 2, b = 3 and zero grads
ScenarioOne(ts, a, b, m, c) ==
    /\ ts[c].ctx = Context("Add", <<m, a>>)
    /\ ts[m].ctx = Context("Mul", <<a, b>>)
    /\ IsLeaf(ts, a) /\ IsLeaf(ts, b)
    /\ ts[a].data = Scalar(2) /\ ts[b].data = Scalar(3)
    /\ AllZero(ts, {a, b, m, c})

\* C3: end-to-end scenario 1.  With a = 2, b = 3, c = a * b + a, c.backward()
\* completes without error and leaves a.grad = 4 and b.grad = 2.
C3_ScenarioOne ==
    [][ \A a, b, m \in Ids :
          last'.call = "backward" /\ ScenarioOne(tensors, a, b, m, last'.self) =>
            /\ last'.err = ""
            /\ tensors'[a].grad = Scalar(4)
            /\ tensors'[b].grad = Scalar(2) ]_vars

C3_Witness ==
    /\ BackwardDone /\ ~last.debug /\ last.calls = <<4, 3>>
    /\ tensors[1].data = Scalar(2) /\ tensors[2].data = Scalar(3)
    /\ tensors[3].data = Scalar(6) /\ tensors[4].data = Scalar(8)
    /\ tensors[1].grad = Scalar(4) /\ tensors[2].grad = Scalar(2)

\* C4: graph teardown.  After a default backward() that returns normally every
\* non-leaf Tensor that was reachable from the root has had its creator.backward
\* invoked and its creator discarded; after backward(debug=True) every Tensor
\* holds the creator, with the parents, it held before the call.
C4_Teardown ==
    [][ last'.call = "backward" =>
          /\ (~last'.debug /\ last'.err = "") =>
                \A n \in Reach(tensors, last'.self) :
                    IsNonLeaf(tensors, n) =>
                        n \in Invoked(last'.calls) /\ tensors'[n].ctx = Deleted
          /\ last'.debug => \A n \in Ids : tensors'[n].ctx = tensors[n].ctx ]_vars

C4_Witness ==
    /\ BackwardDone /\ ~last.debug /\ Len(last.calls) >= 3
    /\ \A n \in Invoked(last.calls) : tensors[n].ctx = Deleted

\* C5: InvalidGraphState.  backward() on a root whose creator was discarded by
\* an earlier default backward() raises to the caller and re-traverses nothing:
\* no creator.backward is invoked and no Tensor is changed.
C5_TornDownRootRaises ==
    [][ (last'.call = "backward" /\ tensors[last'.self].ctx = Deleted) =>
          /\ last'.err # ""
          /\ last'.calls = <<>>
          /\ tensors' = tensors ]_vars

C5_Witness ==
    /\ last.call = "backward" /\ last.err = "AttributeError" /\ nBackward = 2
    /\ tensors[last.self].ctx = Deleted /\ last.calls = <<>>
    /\ \A n \in Ids : tensors[n].ctx.kind # "Context"

\* x.grad after root.backward(debug) when only x's grad is zeroed beforehand
Contributed(ts, root, debug, x) ==
    backward([ts EXCEPT ![x] = ZeroOf(@)], root, debug).ts[x].grad.v

\* C6 as stated: after a backward() call every grad is the gradient of that
\* call alone, whatever it held from an earlier call.
C6_GradOverwritten ==
    [][ (last'.call = "backward" /\ last'.err = "") =>
          \A x \in Reach(tensors, last'.self) :
            tensors'[x].grad =
                backward(ZeroGrad(tensors), last'.self, last'.debug).ts[x].grad ]_vars

\* C6 amended: backward() overwrites only the root's grad (with ones of the
\* root's shape); every other Tensor's grad keeps the value it held from
\* earlier calls and the call's contributions are added to it.
C6_RootOverwrittenOthersAdded ==
    [][ (last'.call = "backward" /\ last'.err = "") =>
          /\ tensors'[last'.self].grad = np_ones(tensors[last'.self].data.dims)
          /\ \A x \in Ids \ {last'.self} :
                tensors'[x].grad.v =
                    PlusV(tensors[x].grad.v,
                          Contributed(tensors, last'.self, last'.debug, x)) ]_vars

\* a second, retained pass has left in a leaf more than it contributed alone
C6_Witness ==
    /\ BackwardDone /\ last.debug /\ nBackward = 2 /\ Len(last.calls) >= 1
    /\ \E x \in Ids \ {last.self} :
          /\ IsLeaf(tensors, x)
          /\ GradAlone(tensors, last.self, x)[1] > 0
          /\ tensors[x].grad.v[1] > GradAlone(tensors, last.self, x)[1]

\* C7: retained graph re-use.  After root.backward(debug=True) on fresh grads
\* a second root.backward(debug=True) succeeds; if every grad is zeroed in
\* between, it leaves every grad as the first pass did; if none is, each
\* non-root grad keeps what the first pass left and the second adds to it.
C7_RetainedReuse ==
    (BackwardDone /\ last.debug /\ nBackward = 1) =>
        /\ backward(ZeroGrad(tensors), last.self, TRUE).err = ""
        /\ \A n \in Ids :
              backward(ZeroGrad(tensors), last.self, TRUE).ts[n].grad = tensors[n].grad
        /\ backward(tensors, last.self, TRUE).err = ""
        /\ \A n \in Ids \ {last.self} :
              backward(tensors, last.self, TRUE).ts[n].grad.v =
                  PlusV(tensors[n].grad.v, Contributed(tensors, last.self, TRUE, n))

\* a retained pass over at least two creators, whose repetition doubles a grad
C7_Witness ==
    /\ BackwardDone /\ last.debug /\ nBackward = 1 /\ Len(last.calls) >= 2
    /\ \E n \in Ids \ {last.self} :
          /\ tensors[n].grad.v[1] > 0
          /\ backward(tensors, last.self, TRUE).ts[n].grad.v[1] > tensors[n].grad.v[1]

\* the Tensor that operand j of a comm call became: itself, or the leaf that
\* wraps it (the wrapped leaves are appended in operand order)
RawsUpTo(args, j)     == Cardinality({k \in 1..j : ~args[k].isT})
OperandId(n, args, j) == IF args[j].isT THEN args[j].id ELSE n + RawsUpTo(args, j)

\* C8: Tensor.comm wraps every raw operand in a new leaf (no creator, zero
\* grad, requires_grad False), hands the operands to forward in their order,
\* returns a new Tensor holding the operator-instance forward returned, with
\* requires_grad True whatever the operands' flags, and changes no operand.
C8_Comm ==
    [][ last'.call = "comm" =>
          /\ Len(tensors') = Len(tensors) + RawsUpTo(last'.args, Len(last'.args)) + 1
          /\ last'.ret = Len(tensors')
          /\ \A n \in Ids : tensors'[n] = tensors[n]
          /\ \A j \in 1..Len(last'.args) :
                ~last'.args[j].isT =>
                    tensors'[OperandId(Len(tensors), last'.args, j)] =
                        [data |-> np_array(last'.args[j].raw),
                         grad |-> np_zeros_like(last'.args[j].raw),
                         ctx |-> NoContext, requires_grad |-> FALSE, name |-> ""]
          /\ tensors'[last'.ret].ctx =
                Context(last'.f, [j \in 1..Len(last'.args) |->
                                     OperandId(Len(tensors), last'.args, j)])
          /\ tensors'[last'.ret].requires_grad
          /\ tensors'[last'.ret].grad = np_zeros_like(tensors'[last'.ret].data) ]_vars

\* a comm call on a raw operand and a Tensor that does not require grad
C8_Witness ==
    /\ last.call = "comm" /\ Len(last.args) = 2
    /\ ~last.args[1].isT /\ last.args[2].isT
    /\ ~tensors[last.args[2].id].requires_grad
    /\ tensors[last.ret].requires_grad
    /\ tensors[last.ret].ctx.parents = <<last.ret - 1, last.args[2].id>>

\* grad is all zeros of the value's shape, and there is no creator
LeafIdentity(t) == t.ctx = NoContext /\ t.grad = np_zeros_like(t.data)

\* C9: leaf identity.  A Tensor constructed directly or by a creation helper
\* has no creator, a zero grad of its value's shape and requires_grad False
\* unless the caller passed it; and a leaf keeps creator = None and a zero grad
\* of its value's shape until a backward pass reaches it.
C9_LeafIdentity ==
    [][ /\ last'.call \in {"Tensor", "zeros", "ones"} =>
              /\ LeafIdentity(tensors'[last'.self])
              /\ tensors'[last'.self].requires_grad = last'.flag
        /\ \A n \in Ids :
              (/\ LeafIdentity(tensors[n])
               /\ ~(last'.call = "backward" /\ n \in Reach(tensors, last'.self)))
              => LeafIdentity(tensors'[n]) ]_vars

\* C10: in-place isolation.  An in-place update changes only the value of the
\* Tensor it is applied to: its grad, creator and flag stay, it is the Tensor
\* returned, no Tensor is created and no other Tensor (so no creator.parents)
\* changes.
C10_InplaceIsolation ==
    [][ last'.call = "inplace" =>
          /\ Len(tensors') = Len(tensors)
          /\ last'.ret = last'.self
          /\ \A n \in Ids \ {last'.self} : tensors'[n] = tensors[n]
          /\ tensors'[last'.self] =
                [tensors[last'.self] EXCEPT !.data = tensors'[last'.self].data] ]_vars

\* an update of a non-leaf Tensor that holds a grad, by another Tensor
C10_Witness ==
    /\ last.call = "inplace" /\ last.f \in InplaceOps
    /\ last.args[1].isT /\ last.args[1].id # last.self
    /\ IsNonLeaf(tensors, last.self)
    /\ ~AllZero(tensors, {last.self})

\* the heap with the requires_grad flags set as F says / with the flags hidden
FlagsSet(ts, F) == [n \in 1..Len(ts) |-> [ts[n] EXCEPT !.requires_grad = (n \in F)]]
FlagsHidden(ts) == FlagsSet(ts, {})

\* other settings of the flags of the same Tensors: none set, all set, and
\* every flag the opposite of what it is
FlagSettings(ts) ==
    { {}, 1..Len(ts), {n \in 1..Len(ts) : ~ts[n].requires_grad} }

\* C11: the requires_grad flag is advisory.  With the flags of the Tensors set
\* otherwise, a comm call builds the same graph and a backward() call invokes the
\* same creators in the same order, ends the same way and leaves the same
\* grads and creators; no_grad() / requires_grad_() change only the flag.
C11_FlagAdvisory ==
    [][ /\ last'.call = "comm" =>
              \A F \in FlagSettings(tensors) :
                  FlagsHidden(comm(FlagsSet(tensors, F), last'.f, last'.args))
                      = FlagsHidden(tensors')
        /\ last'.call = "backward" =>
              \A F \in FlagSettings(tensors) :
                  \E other \in {backward(FlagsSet(tensors, F), last'.self, last'.debug)} :
                      /\ other.err = last'.err
                      /\ other.calls = last'.calls
                      /\ FlagsHidden(other.ts) = FlagsHidden(tensors')
        /\ last'.call \in {"no_grad", "requires_grad_"} =>
              /\ FlagsHidden(tensors') = FlagsHidden(tensors)
              /\ tensors'[last'.self].requires_grad = last'.flag ]_vars

\* a pass that ran the creator of a Tensor switched off with no_grad() and
\* left a gradient in a leaf that does not require grad
C11_Witness ==
    /\ BackwardDone
    /\ \E n \in Invoked(last.calls) : ~tensors[n].requires_grad
    /\ \E x \in Ids : IsLeaf(tensors, x) /\ ~tensors[x].requires_grad
                        /\ ~AllZero(tensors, {x})
    /\ \E y \in Ids : tensors[y].requires_grad

\* how many times n stands in a list, and where it stands first
Count(seq, n)   == Cardinality({i \in 1..Len(seq) : seq[i] = n})
IndexOf(seq, n) == CHOOSE i \in 1..Len(seq) : seq[i] = n /\ \A j \in 1..(i - 1) : seq[j] # n
TornDown(ts, S) == {n \in S : ts[n].ctx = Deleted}

\* C12: the post-order list.  The list build_topo makes for a backward() call
\* holds every non-leaf Tensor reachable from the root exactly once and no
\* leaf, and each Tensor after its parents that have a creator; so each
\* creator.backward is invoked exactly once in the pass, in either mode.
C12_PostOrder ==
    [][ (last'.call = "backward" /\ TornDown(tensors, Reach(tensors, last'.self)) = {}) =>
          \E st \in {build_topo(tensors, last'.self, TopoStart)} :
              /\ ~st.err
              /\ \A n \in Reach(tensors, last'.self) :
                    /\ Count(st.topo, n) = IF IsNonLeaf(tensors, n) THEN 1 ELSE 0
                    /\ Count(last'.calls, n) <= 1
                    /\ (IsNonLeaf(tensors, n) /\ last'.err = "") => Count(last'.calls, n) = 1
              /\ \A n \in Invoked(st.topo) :
                    \A q \in Parents(tensors, n) :
                        IsNonLeaf(tensors, q) =>
                            /\ q \in Invoked(st.topo)
                            /\ IndexOf(st.topo, q) < IndexOf(st.topo, n) ]_vars

\* C13: shape invariant.  No operation changes the shape of the value of a
\* Tensor that exists, and after every operation the grad of every Tensor has
\* the shape of its value.
C13_ShapeInvariant ==
    [][ /\ \A n \in Ids : tensors'[n].data.dims = tensors[n].data.dims
        /\ \A n \in 1..Len(tensors') :
              tensors'[n].grad.dims = tensors'[n].data.dims ]_vars

\* the heap after the creators of calls[j..k] have propagated, in that order,
\* and were discarded unless debug
RECURSIVE Propagated(_, _, _, _, _)
Propagated(ts0, calls, j, k, debug) ==
    CHOOSE r \in
      { IF j > k THEN ts
        ELSE Propagated(
               [OperatorBackward(ts, ts[calls[j]].ctx, 1, ts[calls[j]].grad)
                   EXCEPT ![calls[j]].ctx = IF debug THEN @ ELSE Deleted],
               calls, j + 1, k, debug)
        : ts \in {ts0} } : TRUE

\* C14: abort without rollback.  When the creator.backward of a Tensor n
\* raises NotImplementedError during backward(), the call raises it, n is the
\* last Tensor whose creator.backward was invoked, n keeps its creator, and the
\* root's seeding, the contributions and the discards of the Tensors processed
\* before n stay as made.
C14_AbortNoRollback ==
    [][ (/\ last'.call = "backward"
         /\ \E i \in 1..Len(last'.calls) :
                ~HasBackward(tensors[last'.calls[i]].ctx.op)) =>
          \E k \in {Len(last'.calls)} : \E n \in {last'.calls[Len(last'.calls)]} :
              /\ last'.err = "NotImplementedError"
              /\ \A j \in 1..(k - 1) : HasBackward(tensors[last'.calls[j]].ctx.op)
              /\ ~HasBackward(tensors[n].ctx.op)
              /\ tensors'[n].ctx = tensors[n].ctx
              /\ \A j \in 1..(k - 1) :
                    tensors'[last'.calls[j]].ctx =
                        IF last'.debug THEN tensors[last'.calls[j]].ctx ELSE Deleted
              /\ tensors'[last'.self].grad = np_ones(tensors[last'.self].data.dims)
              /\ tensors' = Propagated(seed(tensors, last'.self), last'.calls,
                                       1, k - 1, last'.debug) ]_vars

\* a default pass that discarded the root's creator and left a gradient in a
\* leaf before the creator.backward of a later Tensor raised
C14_Witness ==
    /\ last.call = "backward" /\ last.err = "NotImplementedError" /\ ~last.debug
    /\ Len(last.calls) >= 2
    /\ tensors[last.self].ctx = Deleted
    /\ tensors[last.calls[Len(last.calls)]].ctx.op = ForwardOnly
    /\ \E x \in Ids : IsLeaf(tensors, x) /\ ~AllZero(tensors, {x})

\* the Tensors n descends from along creator.parents (n itself left out)
Ancestors(ts, n) == Closure(ts, Parents(ts, n))

\* C15: acyclicity by construction.  The parents of every creator are Tensors
\* constructed before the Tensor that holds it (Tensors are numbered in the
\* order of construction), and no Tensor is its own ancestor.
C15_Acyclic ==
    \A n \in Ids :
        /\ \A p \in Parents(tensors, n) : p < n
        /\ n \notin Ancestors(tensors, n)

\* after an in-place update, a graph two levels deep in which a Tensor is
\* both a parent and a deeper ancestor of another
C15_Witness ==
    /\ last.call = "inplace"
    /\ \E n \in Ids : \E p \in Parents(tensors, n) :
          /\ Parents(tensors, p) # {}
          /\ Ancestors(tensors, n) \cap Parents(tensors, n) # {}

\* C16: root seeding.  A backward() call whose traversal order can be built
\* (no torn-down Tensor is reachable) replaces the root's grad by ones of the
\* root's shape, whatever it held; the root's creator.backward is the first
\* invoked and is handed that buffer of ones; the root's grad is ones when the
\* call ends; on a leaf root the call does only this and invokes no operator.
C16_RootSeeding ==
    [][ (last'.call = "backward" /\ TornDown(tensors, Reach(tensors, last'.self)) = {}) =>
          \E ones \in {np_ones(tensors[last'.self].data.dims)} :
              /\ tensors'[last'.self].grad = ones
              /\ IsNonLeaf(tensors, last'.self) =>
                    /\ Len(last'.calls) >= 1
                    /\ last'.calls[1] = last'.self
                    /\ last'.partials[1] = ones
              /\ IsLeaf(tensors, last'.self) =>
                    /\ last'.err = "" /\ last'.calls = <<>>
                    /\ tensors' = [tensors EXCEPT ![last'.self].grad = ones] ]_vars

\* C17: a torn-down Tensor is not a leaf.  A Tensor whose creator was discarded
\* stays torn down (it never holds creator = None); comm accepts it as an
\* operand; and backward() on a root that reaches it raises while the
\* traversal order is built: no creator.backward is invoked, the root is not
\* seeded and no Tensor is changed.
C17_TornDownOperand ==
    [][ /\ \A n \in Ids : tensors[n].ctx = Deleted => tensors'[n].ctx = Deleted
        /\ (/\ last'.call = "backward"
            /\ TornDown(tensors, Reach(tensors, last'.self) \ {last'.self}) # {}) =>
              /\ last'.err = "AttributeError"
              /\ last'.calls = <<>>
              /\ tensors' = tensors ]_vars

\* backward() raised on a root built by comm over a Tensor that an earlier
\* default pass tore down, with the root's grad still zero
C17_Witness ==
    /\ last.call = "backward" /\ last.err = "AttributeError" /\ last.calls = <<>>
    /\ IsNonLeaf(tensors, last.self)
    /\ AllZero(tensors, {last.self})
    /\ \E p \in Parents(tensors, last.self) :
          tensors[p].ctx = Deleted /\ ~AllZero(tensors, {p})

\* C19: the frame of backward().  A backward() call changes no Tensor's value,
\* requires_grad flag or name, creates no Tensor, leaves every creator either
\* as it was (same operator, same parents) or discarded, and leaves the grad
\* and the creator of every Tensor not reachable from the root untouched.
C19_BackwardFrame ==
    [][ last'.call = "backward" =>
          /\ Len(tensors') = Len(tensors)
          /\ \A n \in Ids :
                /\ tensors'[n].data = tensors[n].data
                /\ tensors'[n].requires_grad = tensors[n].requires_grad
                /\ tensors'[n].name = tensors[n].name
                /\ tensors'[n].ctx \in {tensors[n].ctx, Deleted}
                /\ n \notin Reach(tensors, last'.self) => tensors'[n] = tensors[n] ]_vars

\* a pass that returned, changed grads and discarded creators, while a
\* Tensor outside the root's graph holds a creator and a gradient
C19_Witness ==
    /\ BackwardDone /\ ~last.debug /\ Len(last.calls) >= 1
    /\ \E n \in Ids : IsNonLeaf(tensors, n) /\ ~AllZero(tensors, {n})

\* C18: termination.  Every backward() call on a graph built by comm comes to
\* its end: the construction of the processing order and the loop over it
\* finish, and the call returns or raises.
C18_Terminates == (pass.pc = "topo") ~> (pass.pc \in {"returned", "raised"})

\* a retained pass that came to its end after build_topo appended a Tensor
\* twice, having left what the whole call leaves
C18_Witness ==
    /\ pass.pc = "returned" /\ pass.debug
    /\ \E n \in Ids : Count(pass.topo, n) = 2
    /\ Len(pass.calls) = Len(pass.topo)
    /\ \E whole \in {backward(pass.start, pass.self, pass.debug)} :
          /\ whole.ts = tensors
          /\ whole.calls = pass.calls
          /\ whole.err = ""

====
